---- MODULE Spec2Model ----
(***************************************************************************)
(* Model of macaque_utils/interfaces/select_coreg.py:                      *)
(* SelectCoregistration picks, among several candidate images, the one    *)
(* whose voxels inside the binarized target correlate best (Pearson r)    *)
(* with the target, and saves the correlations to corrs.csv.              *)
(*                                                                         *)
(* A volume is the sequence of its voxel intensities; a file that cannot  *)
(* be read as a volume is Missing.  A correlation is kept exactly, as the *)
(* fraction sgn(r) * r^2 in lowest terms, so that two scores are equal or *)
(* ordered in the model exactly when the real numbers are.                *)
(***************************************************************************)
EXTENDS Integers, Sequences, FiniteSets, TLC

VARIABLES
    target,        \* inputs.target: the volume stored in the target file
    sources,       \* inputs.sources: the volumes stored in the candidate files
    output_list,   \* inputs.output_list
    pc,            \* position in BaseInterface.run / _run_interface
    target_vox,    \* line 41
    i,             \* line 44: number of loop iterations completed
    correlations,  \* line 43
    results,       \* self._results
    outputs,       \* what the interface hands to its caller
    corrs_csv,     \* the file corrs.csv in runtime.cwd
    exception,     \* the exception that ended the run, "None" if none
    loads,         \* loads[0]: reads of the target file; loads[k]: of sources[k]
    run,           \* 1 for the first invocation, 2 for the second
    first,         \* what the first invocation ended with
    writes         \* the paths this run has written to, in order

\* The workflow layer: the functions that build or run the nipype workflows.
VARIABLES
    entry,           \* the function of the package that is called
    warp_field_only, \* argument of init_gradient_nonlinearity_wf
    graph,           \* the connections of the workflow under construction
    stmt,            \* the number of wf.connect calls that have returned
    wf_state,        \* "idle", "building", "built" or the exception raised
    template_dir,    \* what the file system holds at template_dir
    overwrite,       \* inputs.overwrite of InstallNMT
    nmt_pc,          \* position in setup_nmt or InstallNMT
    calls,           \* calls of setup_nmt so far
    wf_runs,         \* times nmt_wf.run() was called
    installs,        \* times @Install_NMT was invoked
    brain_mask,      \* inputs.brain_mask of HemisphereMask: the file it names
    hem_pc,          \* position in HemisphereMask._run_interface
    mask,            \* local of HemisphereMask._run_interface
    right_mask,      \* local
    left_mask,       \* local
    hem_k,           \* iterations of the output loop completed
    hem_results,     \* self._results of HemisphereMask
    cwd_files        \* the files in runtime.cwd

selVars == <<target, sources, output_list, pc, target_vox, i, correlations,
             results, outputs, corrs_csv, exception, loads, run, first, writes>>

buildVars == <<warp_field_only, graph, stmt, wf_state>>

nmtVars == <<template_dir, overwrite, nmt_pc, calls, wf_runs, installs>>

hemVars == <<brain_mask, hem_pc, mask, right_mask, left_mask, hem_k, hem_results,
             cwd_files>>

wfVars == <<entry, buildVars, nmtVars, hemVars>>

vars == <<selVars, wfVars>>

\* The largest number of candidate files handed to one run.
MaxCand == 2

\* A file that does not exist or does not parse as a volume.
Missing == <<>>

\* The volumes the inputs are drawn from: three voxels each.
Volumes ==
    { <<0, 0, 0>>,      \* all zero: an empty mask as target, constant as candidate
      <<2, 2, 2>>,      \* constant, non-zero
      <<1, 2, 3>>,
      <<2, 4, 6>>,      \* 2 * <<1, 2, 3>>
      <<3, 2, 1>>,      \* <<1, 2, 3>> reversed
      <<1, 3, 2>>,
      <<2, 1, 3>>,
      <<0, 1, 2>>,      \* two voxels in the mask
      <<0, 0, 5>> }     \* one voxel in the mask

Files == Volumes \cup {Missing}

\* Sequences of at most n elements of S.
SeqUpTo(S, n) == UNION { [1..k -> S] : k \in 0..n }

----------------------------------------------------------------------------
\* Arithmetic helpers.

Abs(n) == IF n < 0 THEN -n ELSE n

RECURSIVE GCD(_, _)
GCD(a, b) == IF b = 0 THEN a ELSE GCD(b, a % b)

RECURSIVE Dot(_, _)
Dot(x, y) == IF x = <<>> THEN 0 ELSE Head(x) * Head(y) + Dot(Tail(x), Tail(y))

Ones(x) == [k \in 1..Len(x) |-> 1]

----------------------------------------------------------------------------
\* Scores.

NaN == [nan |-> TRUE, num |-> 0, den |-> 1]

\* -inf, below every correlation (which lie in [-1, 1]).
NegInf == [nan |-> FALSE, num |-> -2, den |-> 1]

Greater(a, b) == a.num * b.den > b.num * a.den

\* scipy.stats.pearsonr rejects inputs of different lengths and inputs shorter
\* than two values (ValueError).
PearsonrRejects(x, y) == Len(x) # Len(y) \/ Len(x) < 2

\* scipy.stats.pearsonr(x, y)[0] for Len(x) = Len(y) >= 2: NaN when either
\* input is constant, otherwise r, kept as sgn(r) * r^2 in lowest terms.
pearsonr(x, y) ==
    LET n  == Len(x)
        c  == n * Dot(x, y) - Dot(x, Ones(x)) * Dot(y, Ones(y))
        dx == n * Dot(x, x) - Dot(x, Ones(x)) * Dot(x, Ones(x))
        dy == n * Dot(y, y) - Dot(y, Ones(y)) * Dot(y, Ones(y))
        p  == IF c < 0 THEN -(c * c) ELSE c * c
        q  == dx * dy
        g  == GCD(Abs(p), q)
    IN  IF dx = 0 \/ dy = 0
        THEN NaN
        ELSE [nan |-> FALSE, num |-> p \div g, den |-> q \div g]

----------------------------------------------------------------------------
\* nilearn: the mask and the extraction of the voxels under it.

\* image.binarize_img(img): 1 where the image is non-zero, 0 elsewhere.
binarize_img(img) == [v \in DOMAIN img |-> IF img[v] # 0 THEN 1 ELSE 0]

fit_own(mask_img, imgs) == [v \in DOMAIN imgs |-> IF imgs[v] # 0 THEN 1 ELSE 0]

\* NiftiMasker(mask_img).fit(imgs): with a mask image given at construction
\* the fit keeps that mask whatever imgs is.
fit(mask_img, imgs) == mask_img

AllowEmptyMask(mask_img) == FALSE

\* Extracting under a mask without a single true voxel is refused (ValueError).
MaskIsEmpty(mask_img) == \A v \in DOMAIN mask_img : mask_img[v] = 0

\* masker.transform(img).ravel(): the intensities of the voxels inside the
\* mask, in voxel order.
RECURSIVE ApplyMask(_, _, _)
ApplyMask(mask_img, img, k) ==
    IF k > Len(img)
    THEN <<>>
    ELSE (IF mask_img[k] # 0 THEN <<img[k]>> ELSE <<>>)
             \o ApplyMask(mask_img, img, k + 1)

fit_transform(mask_img, img) == ApplyMask(fit(mask_img, img), img, 1)

----------------------------------------------------------------------------
\* numpy: the NaN-ignoring argmax and the text file.

AllNaN(a) == \A k \in 1..Len(a) : a[k].nan

\* _replace_nan(a, -inf)
ReplaceNaN(a) == [k \in 1..Len(a) |-> IF a[k].nan THEN NegInf ELSE a[k]]

RECURSIVE ArgmaxScan(_, _, _)
ArgmaxScan(a, k, best) ==
    IF k > Len(a)
    THEN best
    ELSE ArgmaxScan(a, k + 1, IF Greater(a[k], a[best]) THEN k ELSE best)

RECURSIVE ArgmaxScanLast(_, _, _)
ArgmaxScanLast(a, k, best) ==
    IF k > Len(a)
    THEN best
    ELSE ArgmaxScanLast(a, k + 1, IF Greater(a[best], a[k]) THEN best ELSE k)

argmax_last(a) == ArgmaxScanLast(a, 2, 1) - 1

\* np.argmax(a) for a non-empty a without NaN: the 0-based position of the
\* first largest element.
argmax(a) == ArgmaxScan(a, 2, 1) - 1

\* np.argmax on the raw values: a NaN compares as the maximum, so the first NaN
\* wins; nothing is raised for a non-empty sequence.
argmax_raw(a) ==
    IF a = <<>>
    THEN [raised |-> TRUE, idx |-> -1]
    ELSE IF \E k \in 1..Len(a) : a[k].nan
         THEN [raised |-> FALSE,
               idx |-> (CHOOSE k \in 1..Len(a) :
                           a[k].nan /\ \A j \in 1..(k - 1) : ~a[j].nan) - 1]
         ELSE [raised |-> FALSE, idx |-> argmax(a)]

\* An argmax that answers 0 where numpy raises for an all-NaN sequence.
nanargmax_default(a) ==
    IF a = <<>>
    THEN [raised |-> TRUE, idx |-> -1]
    ELSE IF AllNaN(a)
         THEN [raised |-> FALSE, idx |-> 0]
         ELSE [raised |-> FALSE, idx |-> argmax(ReplaceNaN(a))]

\* np.nanargmax(a): ValueError for an empty or an all-NaN sequence, otherwise
\* the argmax with every NaN replaced by -inf.
nanargmax(a) ==
    IF a = <<>> \/ AllNaN(a)
    THEN [raised |-> TRUE, idx |-> -1]
    ELSE [raised |-> FALSE, idx |-> argmax(ReplaceNaN(a))]

\* One line of np.savetxt: "nan", or the number with 18 digits after the
\* point, enough to read the same double back.
FormatLine(r) ==
    IF r.nan
    THEN [text |-> "nan", num |-> 0, den |-> 1]
    ELSE [text |-> "%.18e", num |-> r.num, den |-> r.den]

\* np.loadtxt on one line.
ParseLine(l) ==
    IF l.text = "nan" THEN NaN ELSE [nan |-> FALSE, num |-> l.num, den |-> l.den]

RECURSIVE DropNaN(_)
DropNaN(a) ==
    IF a = <<>>
    THEN <<>>
    ELSE (IF Head(a).nan THEN <<>> ELSE <<Head(a)>>) \o DropNaN(Tail(a))

savetxt_finite(a) == [k \in 1..Len(DropNaN(a)) |-> FormatLine(DropNaN(a)[k])]

\* np.savetxt(out, np.array(a), delimiter=","): one line per element, in order.
savetxt(a) == [k \in 1..Len(a) |-> FormatLine(a[k])]

----------------------------------------------------------------------------
\* The interface.

Unset == [kind |-> "unset", val |-> -1]

NoResults == [source_index |-> Unset, correlations |-> "unset"]

NoFile == [exists |-> FALSE, lines |-> <<>>]

NoLoads == [f \in 0..MaxCand |-> 0]

NoFirst == [ended |-> "no", exception |-> "None", results |-> NoResults,
            outputs |-> NoResults, correlations |-> <<>>, corrs_csv |-> NoFile]

\* traits.Int() takes an integer and refuses a list (TraitError).
IntTraitRejects(value) == value.kind = "list"

\* Lines 50-51: the index alone, or wrapped in a one-element list.
WrapIndex(idx, as_list) ==
    IF as_list THEN [kind |-> "list", val |-> idx] ELSE [kind |-> "int", val |-> idx]

AppendFinite(l, r) == IF r.nan THEN l ELSE Append(l, r)

\* Line 47: correlations.append(r)
ListAppend(l, r) == Append(l, r)

SkipMissing(file) == FALSE

\* nib.load and nilearn's image loading raise for a file that is no volume.
LoadFails(file) == file = Missing

KeepList(l) == l

\* Line 43: correlations = []
NewList(l) == <<>>

\* inputs.target: the path of the target file.
TargetFile == "target.nii.gz"

OntoTarget == TargetFile

\* Line 54: os.path.join(runtime.cwd, "corrs.csv")
CorrsPath == "corrs.csv"

\* No function of the workflow layer is called.
BuildIdle ==
    /\ warp_field_only = FALSE
    /\ graph = {}
    /\ stmt = 0
    /\ wf_state = "idle"

\* A path that names nothing.
Absent == [exists |-> FALSE, nmt |-> FALSE, custom |-> "none", other |-> FALSE]

NmtIdle ==
    /\ template_dir = Absent
    /\ overwrite = "Undefined"
    /\ nmt_pc = "idle"
    /\ calls = 0
    /\ wf_runs = 0
    /\ installs = 0

NoMasks == [right_mask |-> <<>>, left_mask |-> <<>>]

HemIdle ==
    /\ brain_mask = Missing
    /\ hem_pc = "idle"
    /\ mask = <<>>
    /\ right_mask = <<>>
    /\ left_mask = <<>>
    /\ hem_k = 0
    /\ hem_results = NoMasks
    /\ cwd_files = {}

WfIdle ==
    /\ entry = "SelectCoregistration"
    /\ BuildIdle
    /\ NmtIdle
    /\ HemIdle

Init ==
    /\ target \in Files
    /\ sources \in SeqUpTo(Files, MaxCand)
    /\ output_list \in BOOLEAN
    /\ pc = "load_target"
    /\ target_vox = <<>>
    /\ i = 0
    /\ correlations = <<>>
    /\ results = NoResults
    /\ outputs = NoResults
    /\ corrs_csv = NoFile
    /\ exception = "None"
    /\ loads = NoLoads
    /\ run = 1
    /\ first = NoFirst
    /\ writes = <<>>
    /\ WfIdle

\* An exception leaves _run_interface: nothing after the raising line runs.
Raise(e) ==
    /\ pc' = "raised"
    /\ exception' = e

\* Line 37: target = nib.load(self.inputs.target)
LoadTarget ==
    /\ pc = "load_target"
    /\ loads' = [loads EXCEPT ![0] = @ + 1]
    /\ IF LoadFails(target)
       THEN Raise("DataLoadError")
       ELSE pc' = "mask_target" /\ UNCHANGED exception
    /\ UNCHANGED <<target, sources, output_list, target_vox, i, correlations,
                   results, outputs, corrs_csv, run, first,
                   writes>>
    /\ UNCHANGED wfVars

\* Lines 38-43: the mask of the target, the target's voxels under it, and the
\* empty list of correlations.
MaskTarget ==
    /\ pc = "mask_target"
    /\ IF MaskIsEmpty(binarize_img(target))
       THEN /\ Raise("EmptyMaskError")
            /\ UNCHANGED <<target_vox, correlations, i>>
       ELSE /\ target_vox' = fit_transform(binarize_img(target), target)
            /\ correlations' = NewList(correlations)
            /\ i' = 0
            /\ pc' = "loop"
            /\ UNCHANGED exception
    /\ UNCHANGED <<target, sources, output_list, results, outputs, corrs_csv,
                   loads, run, first,
                   writes>>
    /\ UNCHANGED wfVars

\* Lines 44-47: one iteration of the loop over the candidates.
ScoreCandidate ==
    /\ pc = "loop"
    /\ i < Len(sources)
    /\ LET src     == sources[i + 1]
           src_vox == fit_transform(binarize_img(target), src)
       IN  /\ loads' = [loads EXCEPT ![i + 1] = @ + 1]
           /\ IF LoadFails(src)
              THEN /\ Raise("DataLoadError")
                   /\ UNCHANGED <<correlations, i>>
              ELSE IF PearsonrRejects(target_vox, src_vox)
              THEN /\ Raise("ValueError")
                   /\ UNCHANGED <<correlations, i>>
              ELSE /\ correlations' =
                          ListAppend(correlations, pearsonr(target_vox, src_vox))
                   /\ i' = i + 1
                   /\ UNCHANGED <<pc, exception>>
    /\ UNCHANGED <<target, sources, output_list, target_vox, results, outputs,
                   corrs_csv, run, first,
                   writes>>
    /\ UNCHANGED wfVars

\* Lines 49-52: the loop is over; the index of the best correlation.
SelectIndex ==
    /\ pc = "loop"
    /\ i = Len(sources)
    /\ IF nanargmax(correlations).raised
       THEN /\ Raise("NoValidCandidateError")
            /\ UNCHANGED results
       ELSE /\ results' = [results EXCEPT !.source_index =
                               WrapIndex(nanargmax(correlations).idx, output_list)]
            /\ pc' = "save"
            /\ UNCHANGED exception
    /\ UNCHANGED <<target, sources, output_list, target_vox, i, correlations,
                   outputs, corrs_csv, loads, run, first,
                   writes>>
    /\ UNCHANGED wfVars

\* Lines 54-58: the correlations are written to corrs.csv and the run returns.
\* Text written over a volume file would leave a file that is no volume.
SaveCorrelations ==
    /\ pc = "save"
    /\ corrs_csv' = [exists |-> TRUE, lines |-> savetxt(correlations)]
    /\ writes' = Append(writes, CorrsPath)
    /\ results' = [results EXCEPT !.correlations = CorrsPath]
    /\ pc' = "returned"
    /\ target' = IF CorrsPath = TargetFile THEN Missing ELSE target
    /\ UNCHANGED <<sources, output_list, target_vox, i, correlations,
                   outputs, exception, loads, run, first>>
    /\ UNCHANGED wfVars

\* The results are stored into the output spec (lines 25-27), which checks
\* each value against its trait.
AggregateOutputs ==
    /\ pc = "returned"
    /\ IF IntTraitRejects(results.source_index)
       THEN /\ Raise("TraitError")
            /\ UNCHANGED outputs
       ELSE /\ outputs' = results
            /\ pc' = "done"
            /\ UNCHANGED exception
    /\ UNCHANGED <<target, sources, output_list, target_vox, i, correlations,
                   results, corrs_csv, loads, run, first,
                   writes>>
    /\ UNCHANGED wfVars

Ended == pc \in {"done", "raised"}

\* The interface is run a second time on the same inputs.  The object (with
\* its _results) and the working directory stay; target_vox, i and
\* correlations keep their old values until the lines that assign them run.
RunAgain ==
    /\ Ended
    /\ run = 1
    /\ first' = [ended |-> pc, exception |-> exception, results |-> results,
                 outputs |-> outputs, correlations |-> correlations,
                 corrs_csv |-> corrs_csv]
    /\ run' = 2
    /\ pc' = "load_target"
    /\ exception' = "None"
    /\ outputs' = NoResults
    /\ loads' = NoLoads
    /\ writes' = <<>>
    /\ UNCHANGED <<target, sources, output_list, target_vox, i, correlations,
                   results, corrs_csv>>
    /\ UNCHANGED wfVars

Next ==
    \/ LoadTarget
    \/ MaskTarget
    \/ ScoreCandidate
    \/ SelectIndex
    \/ SaveCorrelations
    \/ AggregateOutputs
    \/ RunAgain

Spec == Init /\ [][Next]_vars

----------------------------------------------------------------------------
\* The workflow constructors: each is a list of wf.connect calls.

Conn(line, src, out, dst, inp) ==
    [line |-> line, src |-> src, out |-> out, dst |-> dst, inp |-> inp]

\* workflows/downsample.py, init_downsample_wf
DownsampleConnects ==
    << Conn(50, "input_node", "reference", "downsample_t1", "reference_image"),
       Conn(51, "input_node", "t1_brain", "downsample_t1", "input_image"),
       Conn(57, "input_node", "reference", "downsample_nmt", "reference_image"),
       Conn(58, "input_node", "nmt", "downsample_nmt", "input_image"),
       Conn(68, "input_node", "reference", "downsample_nmt", "reference_image"),
       Conn(69, "input_node", "t1_mask", "downsample_nmt", "input_image"),
       Conn(78, "input_node", "t1_tissue_map", "csf_mask", "in_file"),
       Conn(81, "csf_mask", "out_file", "erode_csf_mask", "in_file"),
       Conn(87, "erode_csf_mask", "out_file", "downsample_csf_mask", "input_image"),
       Conn(88, "input_node", "reference", "downsample_csf_mask", "reference_image"),
       Conn(91, "input_node", "t1_tissue_map", "wm_mask", "in_file"),
       Conn(94, "wm_mask", "out_file", "erode_wm_mask", "in_file"),
       Conn(100, "erode_wm_mask", "out_file", "downsample_wm_mask", "input_image"),
       Conn(101, "input_node", "reference", "downsample_wm_mask", "reference_image"),
       Conn(111, "input_node", "t1_tissue_map", "downsample_segmentation", "input_image"),
       Conn(112, "input_node", "reference", "downsample_segmentation", "reference_image"),
       Conn(127, "downsample_t1", "output_image", "output_node", "t1_brain"),
       Conn(128, "downsample_nmt", "output_image", "output_node", "nmt"),
       Conn(129, "downsample_brain_mask", "output_image", "output_node", "t1_mask"),
       Conn(130, "downsample_csf_mask", "output_image", "output_node", "csf_mask"),
       Conn(131, "downsample_wm_mask", "output_image", "output_node", "wm_mask"),
       Conn(132, "downsample_segmentation", "output_image", "output_node", "t1_tissue_map") >>

\* workflows/coregister.py, init_coregistration_wf
CoregistrationConnects ==
    << Conn(63, "input_node", "t1_img", "t1_to_source", "in_file"),
       Conn(64, "input_node", "source_file", "t1_to_source", "reference"),
       Conn(70, "input_node", "t1_brain", "t1_to_source", "in_file"),
       Conn(71, "input_node", "source_file", "t1_to_source", "reference"),
       Conn(75, "t1_to_source", "out_file", "t1_list", "in1"),
       Conn(76, "t1_brain_to_source", "out_file", "t1_list", "in2"),
       Conn(79, "t1_list", "out", "select_coreg", "sources"),
       Conn(80, "input_node", "source_file", "select_coreg", "target"),
       Conn(83, "t1_to_source", "out_matrix_file", "xfm_list", "in1"),
       Conn(84, "t1_brain_to_source", "out_matrix_file", "xfm_list", "in1"),
       Conn(87, "xfm_list", "out", "get_best_xfm", "inlist"),
       Conn(88, "select_coreg", "source_index", "get_best_xfm", "index"),
       Conn(92, "input_node", "t1_mask", "dilate_mask", "in_file"),
       Conn(98, "dilate_mask", "out_file", "mask_to_source", "in_file"),
       Conn(99, "input_node", "source_file", "mask_to_source", "reference"),
       Conn(100, "get_best_xfm", "out", "mask_to_source", "in_matrix_file"),
       Conn(106, "mask_to_source", "out_file", "brain_extract_source", "in_file"),
       Conn(107, "input_node", "source_file", "brain_extract_source", "in_file2"),
       Conn(118, "brain_extract_source", "out_file", "source_to_t1", "moving_image"),
       Conn(119, "input_node", "t1_brain", "source_to_t1", "fixed_image"),
       Conn(127, "input_node", "t1_brain", "downsample_t1", "input_image"),
       Conn(128, "input_node", "source_file", "downsample_t1", "reference_image"),
       Conn(136, "downsample_t1", "output_image", "resample_source", "reference_image"),
       Conn(137, "source_to_t1", "composite_transform", "resample_source", "transforms"),
       Conn(138, "brain_extract_source", "out_file", "resample_source", "input_image"),
       Conn(141, "input_node", "t1_brain", "coreg_qc_inputs", "in1"),
       Conn(142, "resample_source", "output_image", "coreg_qc_inputs", "in2"),
       Conn(145, "coreg_qc_inputs", "out", "coreg_qc", "input_imgs"),
       Conn(162, "t1_to_source", "out_file", "output_node", "init_t1_in_source"),
       Conn(163, "source_to_t1", "inverse_warped_image", "output_node", "t1_in_source"),
       Conn(164, "select_coreg", "correlations", "output_node", "t1_correlations"),
       Conn(165, "resample_source", "output_image", "output_node", "source_in_t1"),
       Conn(166, "mask_to_source", "out_file", "output_node", "source_mask"),
       Conn(167, "source_to_t1", "composite_transform", "output_node",
            "source_to_t1_transform"),
       Conn(173, "source_to_t1", "inverse_composite_transform", "output_node",
            "t1_to_source_transform"),
       Conn(179, "coreg_qc", "out_file", "output_node", "coreg_qc") >>

\* workflows/gradient_nonlinearity.py, init_gradient_nonlinearity_wf
GradientConnects(only_field) ==
    << Conn(24, "input_node", "in_file", "reference", "in_file"),
       Conn(28, "reference", "roi_file", "gradient_unwarp", "in_file"),
       Conn(38, "gradient_unwarp", "out_file", "warpfield", "reference"),
       Conn(39, "gradient_unwarp", "out_warp", "warpfield", "warp1"),
       Conn(48, "warpfield", "out_file", "output_node", "warp1") >>
    \o (IF only_field
        THEN <<>>
        ELSE << Conn(57, "warpfield", "out_file", "apply_warp", "field_file"),
                Conn(58, "reference", "roi_file", "apply_warp", "ref_file"),
                Conn(59, "input_node", "in_file", "apply_warp", "in_file"),
                Conn(60, "apply_warp", "out_file", "output_node", "out_file") >>)

Connects(fn, only_field) ==
    CASE fn = "init_downsample_wf" -> DownsampleConnects
      [] fn = "init_coregistration_wf" -> CoregistrationConnects
      [] fn = "init_gradient_nonlinearity_wf" -> GradientConnects(only_field)
      [] OTHER -> <<>>

\* The interface each node wraps.
InterfaceOf(node) ==
    CASE node \in {"input_node", "output_node"} -> "IdentityInterface"
      [] node \in {"t1_list", "xfm_list", "coreg_qc_inputs"} -> "Merge"
      [] node = "get_best_xfm" -> "Select"
      [] node \in {"downsample_t1", "downsample_nmt", "downsample_brain_mask",
                   "downsample_csf_mask", "downsample_wm_mask",
                   "downsample_segmentation"} -> "ResampleImage"
      [] node \in {"csf_mask", "wm_mask", "brain_extract_source"} -> "ImageMaths"
      [] node \in {"erode_csf_mask", "erode_wm_mask"} -> "ErodeImage"
      [] node \in {"t1_to_source", "t1_brain_to_source"} -> "FLIRT"
      [] node = "select_coreg" -> "SelectCoregistration"
      [] node = "dilate_mask" -> "DilateImage"
      [] node = "mask_to_source" -> "ApplyXFM"
      [] node = "source_to_t1" -> "Registration"
      [] node = "resample_source" -> "ApplyTransforms"
      [] node = "coreg_qc" -> "AlignmentQC"
      [] node = "reference" -> "ExtractROI"
      [] node = "gradient_unwarp" -> "GradUnwarp"
      [] node = "warpfield" -> "ConvertWarp"
      [] node = "apply_warp" -> "ApplyWarp"

\* The fields an IdentityInterface node is created with.
Fields(fn, node) ==
    CASE fn = "init_downsample_wf" /\ node = "input_node" ->
            {"reference", "t1_brain", "t1_mask", "t1_tissue_map", "nmt"}
      [] fn = "init_downsample_wf" /\ node = "output_node" ->
            {"t1_brain", "t1_mask", "wm_mask", "csf_mask", "t1_tissue_map", "nmt"}
      [] fn = "init_coregistration_wf" /\ node = "input_node" ->
            {"t1_img", "t1_brain", "t1_mask", "source_file"}
      [] fn = "init_coregistration_wf" /\ node = "output_node" ->
            {"init_t1_in_source", "t1_in_source", "t1_correlations", "source_in_t1",
             "source_mask", "source_to_t1_transform", "t1_to_source_transform",
             "coreg_qc"}
      [] fn = "init_gradient_nonlinearity_wf" /\ node = "input_node" -> {"in_file"}
      [] fn = "init_gradient_nonlinearity_wf" /\ node = "output_node" ->
            {"out_file", "warp_field"}
      [] OTHER -> {}

\* The inputs the interfaces declare (those the workflows could mean).
InputsOf(fn, node) ==
    LET k == InterfaceOf(node)
    IN  CASE k = "IdentityInterface" -> Fields(fn, node)
          [] k = "Merge" -> {"in1", "in2"}
          [] k = "Select" -> {"inlist", "index"}
          [] k = "ResampleImage" ->
                {"input_image", "dimension", "reference_image", "voxel_size",
                 "interp", "output_image"}
          [] k = "ImageMaths" -> {"in_file", "in_file2", "op_string", "out_file"}
          [] k = "ErodeImage" -> {"in_file", "kernel_shape", "out_file"}
          [] k = "FLIRT" -> {"in_file", "reference", "out_file", "out_matrix_file"}
          [] k = "SelectCoregistration" -> {"target", "sources", "output_list"}
          [] k = "DilateImage" -> {"in_file", "operation", "out_file"}
          [] k = "ApplyXFM" ->
                {"in_file", "reference", "in_matrix_file", "interp", "out_file"}
          [] k = "Registration" -> {"moving_image", "fixed_image"}
          [] k = "ApplyTransforms" ->
                {"input_image", "reference_image", "transforms", "interpolation"}
          [] k = "AlignmentQC" -> {"input_imgs", "img_names", "img_type"}
          [] k = "ExtractROI" -> {"in_file", "t_min", "t_size", "roi_file"}
          [] k = "GradUnwarp" -> {"in_file", "coeffs"}
          [] k = "ConvertWarp" ->
                {"reference", "warp1", "warp2", "abswarp", "out_relwarp", "out_file"}
          [] k = "ApplyWarp" ->
                {"in_file", "ref_file", "field_file", "relwarp", "interp", "out_file"}

\* The outputs the interfaces declare.
OutputsOf(fn, node) ==
    LET k == InterfaceOf(node)
    IN  CASE k = "IdentityInterface" -> Fields(fn, node)
          [] k \in {"Merge", "Select"} -> {"out"}
          [] k = "ResampleImage" -> {"output_image"}
          [] k = "FLIRT" -> {"out_file", "out_matrix_file", "out_log"}
          [] k = "SelectCoregistration" -> {"source_index", "correlations"}
          [] k = "Registration" ->
                {"composite_transform", "inverse_composite_transform",
                 "warped_image", "inverse_warped_image"}
          [] k = "ApplyTransforms" -> {"output_image"}
          [] k = "ExtractROI" -> {"roi_file"}
          [] k = "GradUnwarp" -> {"out_file", "out_warp"}
          [] OTHER -> {"out_file"}

\* IdentityInterface, Merge and Select are IOBase interfaces: connect does not
\* check the names of their ports.
IsIOBase(node) == InterfaceOf(node) \in {"IdentityInterface", "Merge", "Select"}

Edge(c) == [src |-> c.src, out |-> c.out, dst |-> c.dst, inp |-> c.inp]

\* Workflow.connect refuses a connection into an input that already has one.
AlreadyConnected(g, c) == \E d \in g : d.dst = c.dst /\ d.inp = c.inp

\* Workflow.connect refuses a connection from an output or into an input the
\* node does not have.
NotFound(fn, c) ==
    \/ ~IsIOBase(c.dst) /\ c.inp \notin InputsOf(fn, c.dst)
    \/ ~IsIOBase(c.src) /\ c.out \notin OutputsOf(fn, c.src)

ConstructorEntries ==
    {"init_downsample_wf", "init_coregistration_wf", "init_gradient_nonlinearity_wf"}

\* The next wf.connect call of the constructor.
Connect ==
    /\ entry \in ConstructorEntries
    /\ wf_state = "building"
    /\ stmt < Len(Connects(entry, warp_field_only))
    /\ LET c == Connects(entry, warp_field_only)[stmt + 1]
       IN  IF AlreadyConnected(graph, c)
           THEN /\ wf_state' = "AlreadyConnected"
                /\ UNCHANGED <<graph, stmt>>
           ELSE IF NotFound(entry, c)
           THEN /\ wf_state' = "NotFound"
                /\ UNCHANGED <<graph, stmt>>
           ELSE /\ graph' = graph \cup {Edge(c)}
                /\ stmt' = stmt + 1
                /\ UNCHANGED wf_state
    /\ UNCHANGED <<entry, warp_field_only>>
    /\ UNCHANGED <<selVars, nmtVars, hemVars>>

\* return wf
ReturnWorkflow ==
    /\ entry \in ConstructorEntries
    /\ wf_state = "building"
    /\ stmt = Len(Connects(entry, warp_field_only))
    /\ wf_state' = "built"
    /\ UNCHANGED <<entry, warp_field_only, graph, stmt>>
    /\ UNCHANGED <<selVars, nmtVars, hemVars>>

----------------------------------------------------------------------------
\* workflows/nmt.py and interfaces/nmt.py: the template directory.

MaxCalls == 2

\* The states of template_dir a call can find: the path names nothing, an
\* empty directory, a directory of other files, an installed template without
\* and with its custom directory.
TemplateDirs ==
    { Absent,
      [exists |-> TRUE, nmt |-> FALSE, custom |-> "none", other |-> FALSE],
      [exists |-> TRUE, nmt |-> FALSE, custom |-> "none", other |-> TRUE],
      [exists |-> TRUE, nmt |-> TRUE, custom |-> "none", other |-> FALSE],
      [exists |-> TRUE, nmt |-> TRUE, custom |-> "dir", other |-> FALSE] }

\* os.path.exists(template_dir) and not os.listdir(template_dir)
ExistsAndEmpty(d) == d.exists /\ ~d.nmt /\ ~d.other

\* The truth value of a Bool input: a trait without usedefault is Undefined
\* until it is set, and Undefined is false in a condition.
Truthy(v) == v = "True"

\* @Install_NMT -install_dir d -nmt_ver 2.0 -sym sym -overwrite, after
\* os.makedirs(d, exist_ok=True).  The exit status is not looked at: ok tells
\* whether the download succeeded.
Install_NMT(d, ok) ==
    IF ok
    THEN [exists |-> TRUE, nmt |-> TRUE, custom |-> "none", other |-> d.other]
    ELSE [d EXCEPT !.exists = TRUE]

\* InstallNMT._run_interface, line 37
InstallNeeded(d, ow) == ~d.exists \/ Truthy(ow)

\* InstallNMT._run_interface: the directory afterwards.
InstallNMT(d, ow, ok) == IF InstallNeeded(d, ow) THEN Install_NMT(d, ok) ELSE d

\* NMTDataSink._run_interface: os.makedirs(dest, exist_ok=True) and the copies.
NMTDataSink(d) == [d EXCEPT !.custom = "dir"]

\* A call of setup_nmt, up to the test of line 102.
SetupNmt ==
    /\ entry = "setup_nmt"
    /\ nmt_pc \in {"idle", "returned", "raised"}
    /\ calls < MaxCalls
    /\ calls' = calls + 1
    /\ nmt_pc' = IF ExistsAndEmpty(template_dir) THEN "run" ELSE "copy"
    /\ UNCHANGED <<entry, template_dir, overwrite, wf_runs, installs>>
    /\ UNCHANGED <<selVars, buildVars, hemVars>>

\* Lines 103-104: nmt_wf.run().  get_nmt runs InstallNMT with overwrite unset;
\* standard_files (SelectFiles) fails when the template files are not there
\* and the run raises; otherwise the nodes run through to datasink.
RunNmtWorkflow ==
    /\ entry = "setup_nmt"
    /\ nmt_pc = "run"
    /\ \E ok \in BOOLEAN :
          LET d == InstallNMT(template_dir, overwrite, ok)
          IN  /\ installs' =
                    IF InstallNeeded(template_dir, overwrite)
                    THEN installs + 1 ELSE installs
              /\ IF d.nmt
                 THEN /\ template_dir' = NMTDataSink(d)
                      /\ nmt_pc' = "copy"
                 ELSE /\ template_dir' = d
                      /\ nmt_pc' = "raised"
    /\ wf_runs' = wf_runs + 1
    /\ UNCHANGED <<entry, overwrite, calls>>
    /\ UNCHANGED <<selVars, buildVars, hemVars>>

\* Lines 106-113: the two shutil.copy2 calls onto nmt_dir/custom, and return.
\* Without nmt_dir the first copy raises FileNotFoundError; where custom is
\* not a directory the copies write a file of that name.
CopyCustom ==
    /\ entry = "setup_nmt"
    /\ nmt_pc = "copy"
    /\ IF ~template_dir.nmt
       THEN /\ nmt_pc' = "raised"
            /\ UNCHANGED template_dir
       ELSE /\ nmt_pc' = "returned"
            /\ template_dir' =
                  IF template_dir.custom = "dir"
                  THEN template_dir
                  ELSE [template_dir EXCEPT !.custom = "file"]
    /\ UNCHANGED <<entry, overwrite, calls, wf_runs, installs>>
    /\ UNCHANGED <<selVars, buildVars, hemVars>>

\* InstallNMT._run_interface, run on its own with install_path = template_dir.
RunInstallNMT ==
    /\ entry = "InstallNMT"
    /\ nmt_pc = "idle"
    /\ \E ok \in BOOLEAN : template_dir' = InstallNMT(template_dir, overwrite, ok)
    /\ installs' =
          IF InstallNeeded(template_dir, overwrite) THEN installs + 1 ELSE installs
    /\ nmt_pc' = "returned"
    /\ UNCHANGED <<entry, overwrite, calls, wf_runs>>
    /\ UNCHANGED <<selVars, buildVars, hemVars>>

InitNmt ==
    /\ entry \in {"setup_nmt", "InstallNMT"}
    /\ template_dir \in TemplateDirs
    /\ overwrite \in (IF entry = "InstallNMT"
                      THEN {"Undefined", "True", "False"} ELSE {"Undefined"})
    /\ nmt_pc = "idle"
    /\ calls = 0
    /\ wf_runs = 0
    /\ installs = 0

----------------------------------------------------------------------------
\* interfaces/nmt.py: HemisphereMask.

midpoint == 64

\* Lengths of the first axis of the masks tried, and the voxels along it
\* that can be non-zero: both ends and both sides of the midpoint.
Shapes == {1, 64, 65, 128}
Probes == {0, 63, 64, 127}
Intensities == {1, 2}

\* A mask along its first axis, the other two left out.
MaskOf(nx, on, v) == [x \in 0..(nx - 1) |-> IF x \in on THEN v ELSE 0]

Masks ==
    { MaskOf(nx, on, v) : nx \in Shapes, on \in SUBSET Probes, v \in Intensities }

\* File names, as the pieces str.replace can tell apart.
Basenames == { <<"mask", ".nii", ".gz">>, <<"mask", ".nii">> }

BrainMasks == { [name |-> n, data |-> m] : n \in Basenames, m \in Masks }

\* arr[:k, :, :] *= 0
ZeroBefore(arr, k) == [x \in DOMAIN arr |-> IF x < k THEN 0 ELSE arr[x]]

ZeroAfter(arr, k) == [x \in DOMAIN arr |-> IF x > k THEN 0 ELSE arr[x]]

\* arr[k:, :, :] *= 0
ZeroFrom(arr, k) == [x \in DOMAIN arr |-> IF x >= k THEN 0 ELSE arr[x]]

RECURSIVE Replace(_, _)
\* basename.replace(".nii.gz", f"_{name}.nii.gz")
Replace(basename, name) ==
    IF Len(basename) = 0
    THEN <<>>
    ELSE IF Len(basename) >= 2 /\ basename[1] = ".nii" /\ basename[2] = ".gz"
    THEN <<"_", name, ".nii", ".gz">> \o Replace(SubSeq(basename, 3, Len(basename)), name)
    ELSE <<basename[1]>> \o Replace(Tail(basename), name)

\* img.to_filename(out): a file of that name is replaced.
ToFilename(files, out, data) ==
    {f \in files : f.name # out} \cup {[name |-> out, data |-> data]}

\* Lines 69-71: nib.load and get_fdata.
LoadBrainMask ==
    /\ entry = "HemisphereMask"
    /\ hem_pc = "load"
    /\ IF brain_mask = Missing
       THEN /\ hem_pc' = "FileNotFoundError"
            /\ UNCHANGED mask
       ELSE /\ hem_pc' = "split"
            /\ mask' = brain_mask.data
    /\ UNCHANGED <<entry, brain_mask, right_mask, left_mask, hem_k, hem_results,
                   cwd_files>>
    /\ UNCHANGED <<selVars, buildVars, nmtVars>>

\* Lines 74-79
SplitMask ==
    /\ entry = "HemisphereMask"
    /\ hem_pc = "split"
    /\ right_mask' = ZeroBefore(mask, midpoint)
    /\ left_mask' = ZeroFrom(mask, midpoint)
    /\ hem_pc' = "save"
    /\ UNCHANGED <<entry, brain_mask, mask, hem_k, hem_results, cwd_files>>
    /\ UNCHANGED <<selVars, buildVars, nmtVars>>

\* Lines 82-87, one iteration: right first, left second.
SaveHemisphere ==
    /\ entry = "HemisphereMask"
    /\ hem_pc = "save"
    /\ LET name == <<"right", "left">>[hem_k + 1]
           m == <<right_mask, left_mask>>[hem_k + 1]
           out == Replace(brain_mask.name, name)
       IN  /\ hem_results' =
                 IF name = "right"
                 THEN [hem_results EXCEPT !.right_mask = out]
                 ELSE [hem_results EXCEPT !.left_mask = out]
           /\ cwd_files' = ToFilename(cwd_files, out, m)
    /\ hem_k' = hem_k + 1
    /\ hem_pc' = IF hem_k + 1 = 2 THEN "done" ELSE "save"
    /\ UNCHANGED <<entry, brain_mask, mask, right_mask, left_mask>>
    /\ UNCHANGED <<selVars, buildVars, nmtVars>>

InitHemisphere ==
    /\ entry = "HemisphereMask"
    /\ brain_mask \in BrainMasks \cup {Missing}
    /\ hem_pc = "load"
    /\ mask = <<>>
    /\ right_mask = <<>>
    /\ left_mask = <<>>
    /\ hem_k = 0
    /\ hem_results = NoMasks
    /\ cwd_files = {}

----------------------------------------------------------------------------
\* The workflow layer as a whole: one of its functions is called.

\* The selector is not running.
SelIdle ==
    /\ target = Missing
    /\ sources = <<>>
    /\ output_list = FALSE
    /\ pc = "idle"
    /\ target_vox = <<>>
    /\ i = 0
    /\ correlations = <<>>
    /\ results = NoResults
    /\ outputs = NoResults
    /\ corrs_csv = NoFile
    /\ exception = "None"
    /\ loads = NoLoads
    /\ run = 1
    /\ first = NoFirst
    /\ writes = <<>>

InitConstructor ==
    /\ entry \in ConstructorEntries
    /\ warp_field_only \in
          (IF entry = "init_gradient_nonlinearity_wf" THEN BOOLEAN ELSE {FALSE})
    /\ graph = {}
    /\ stmt = 0
    /\ wf_state = "building"

InitWorkflows ==
    /\ SelIdle
    /\ \/ InitConstructor /\ NmtIdle /\ HemIdle
       \/ BuildIdle /\ InitNmt /\ HemIdle
       \/ BuildIdle /\ NmtIdle /\ InitHemisphere

NextWorkflows ==
    \/ Connect
    \/ ReturnWorkflow
    \/ SetupNmt
    \/ RunNmtWorkflow
    \/ CopyCustom
    \/ RunInstallNMT
    \/ LoadBrainMask
    \/ SplitMask
    \/ SaveHemisphere

SpecWorkflows == InitWorkflows /\ [][NextWorkflows]_vars

----------------------------------------------------------------------------
\* Properties of SelectCoregistration.

\* This run has stored an index into _results (line 52 was reached).
Selected ==
    \/ pc \in {"save", "returned", "done"}
    \/ pc = "raised" /\ exception = "TraitError"

\* The index stored by line 52, as a position of correlations.
Chosen == results.source_index.val + 1

\* The score of the k-th candidate against the target.
ScoreOf(k) ==
    pearsonr(fit_transform(binarize_img(target), target),
             fit_transform(binarize_img(target), sources[k]))

\* C1: whenever an index is selected it is the position of a score that is not
\* NaN and that no other non-NaN score exceeds; and the selection fails only
\* when no score is a number.
C1_SelectsMaxNonNaN ==
    /\ Selected =>
          /\ Chosen \in 1..Len(correlations)
          /\ ~correlations[Chosen].nan
          /\ \A j \in 1..Len(correlations) :
                ~correlations[j].nan => ~Greater(correlations[j], correlations[Chosen])
    /\ (pc = "raised" /\ exception = "NoValidCandidateError") => AllNaN(correlations)

C1_Witness ==
    /\ pc = "done"
    /\ Len(correlations) = 2
    /\ correlations[1].nan
    /\ ~correlations[2].nan
    /\ results.source_index.val = 1

\* C2: a run that has scored every candidate and has ended, with an index or
\* with NoValidCandidateError, has written one line per candidate to corrs.csv.
C2_ScoreFileAlwaysWritten ==
    ( /\ Ended
      /\ Len(sources) >= 1
      /\ i = Len(sources)
      /\ exception \in {"None", "NoValidCandidateError", "TraitError"} )
    => (corrs_csv.exists /\ Len(corrs_csv.lines) = Len(sources))

\* C3: once every candidate is scored and every score is NaN, the run can only
\* end with NoValidCandidateError, and neither _results nor the outputs hold an
\* index.
C3_AllNaNRaises ==
    ( /\ pc \notin {"load_target", "mask_target"}
      /\ Len(sources) >= 1
      /\ i = Len(sources)
      /\ Len(correlations) = Len(sources)
      /\ AllNaN(correlations) )
    => /\ pc = "loop" \/ (pc = "raised" /\ exception = "NoValidCandidateError")
       /\ results.source_index = Unset
       /\ outputs.source_index = Unset

C3_Witness ==
    /\ pc = "raised"
    /\ exception = "NoValidCandidateError"
    /\ Len(sources) = 2
    /\ AllNaN(correlations)

\* C4: after k iterations of the loop there are k scores, so when the loop is
\* over, whether the selection succeeds or fails, there is one score per
\* candidate.
C4_OneScorePerCandidate ==
    /\ pc = "loop" => Len(correlations) = i
    /\ (Selected \/ (pc = "raised" /\ exception = "NoValidCandidateError"))
          => Len(correlations) = Len(sources)

C4_Witness ==
    /\ pc = "raised"
    /\ exception = "NoValidCandidateError"
    /\ Len(sources) = 2
    /\ sources[1] # sources[2]
    /\ Len(correlations) = 2

TargetAllZero == target # Missing /\ \A v \in DOMAIN target : target[v] = 0

\* C5: with an all-zero target the run gets no further than the masking of the
\* target, where it ends with EmptyMaskError: no candidate file is read, no
\* score is computed, no index is stored and nothing is written.
C5_EmptyMaskBeforeScoring ==
    TargetAllZero =>
       /\ \/ pc \in {"load_target", "mask_target"}
          \/ pc = "raised" /\ exception = "EmptyMaskError"
       /\ \A k \in 1..MaxCand : loads[k] = 0
       /\ correlations = <<>>
       /\ results = NoResults
       /\ outputs = NoResults
       /\ ~corrs_csv.exists

C5_Witness ==
    /\ TargetAllZero
    /\ pc = "raised"
    /\ exception = "EmptyMaskError"
    /\ Len(sources) = 2

One == [nan |-> FALSE, num |-> 1, den |-> 1]

\* C6: no candidate before the selected one has the same score as it; two
\* identical candidates that correlate perfectly with the target give index 0.
C6_FirstMaximum ==
    Selected =>
       /\ \A j \in 1..Len(correlations) :
             correlations[j] = correlations[Chosen] => j >= Chosen
       /\ ( /\ Len(sources) >= 2
            /\ sources[1] = sources[2]
            /\ correlations[1] = One ) => results.source_index.val = 0

C6_Witness ==
    /\ Selected
    /\ Len(sources) = 2
    /\ sources[1] = sources[2]
    /\ correlations[1] = One
    /\ correlations[2] = One
    /\ results.source_index.val = 0

\* C7: the stored index is a one-element list when output_list is true and a
\* bare integer when it is false, with the same value in both forms, and in
\* both forms it is accepted as the output source_index: a run that stored an
\* index does not end in an error.
C7_BothFormsAccepted ==
    Selected =>
       /\ results.source_index.kind = (IF output_list THEN "list" ELSE "int")
       /\ results.source_index.val = nanargmax(correlations).idx
       /\ pc # "raised"
       /\ pc = "done" => outputs.source_index = results.source_index

\* C8: corrs.csv, once written, has one line per candidate, and its k-th line
\* reads back as the score of the k-th candidate, NaN included.
C8_FileInCandidateOrder ==
    corrs_csv.exists =>
       /\ Len(corrs_csv.lines) = Len(sources)
       /\ \A k \in 1..Len(sources) : ParseLine(corrs_csv.lines[k]) = ScoreOf(k)

C8_Witness ==
    /\ corrs_csv.exists
    /\ Len(corrs_csv.lines) = 2
    /\ corrs_csv.lines[1].text = "%.18e"
    /\ corrs_csv.lines[2].text = "nan"

\* C9: no file is read twice in a run; a target that cannot be loaded ends the
\* run with DataLoadError before any candidate is read; a candidate that cannot
\* be loaded ends it with DataLoadError when it is read, it and the candidates
\* after it are never scored; and a run ended by DataLoadError has stored no
\* index and written no file.
C9_LoadFailureAborts ==
    /\ \A f \in 0..MaxCand : loads[f] <= 1
    /\ (target = Missing /\ pc # "load_target") =>
          /\ pc = "raised" /\ exception = "DataLoadError"
          /\ \A k \in 1..MaxCand : loads[k] = 0
    /\ \A k \in 1..Len(sources) :
          sources[k] = Missing =>
             /\ loads[k] = 1 => (pc = "raised" /\ exception = "DataLoadError")
             /\ \A j \in (k + 1)..MaxCand : loads[j] = 0
             /\ Len(correlations) < k
             /\ i < k
    /\ exception = "DataLoadError" =>
          /\ pc = "raised"
          /\ results = NoResults
          /\ outputs = NoResults
          /\ ~corrs_csv.exists

C9_Witness ==
    /\ pc = "raised"
    /\ exception = "DataLoadError"
    /\ Len(sources) = 2
    /\ sources[1] # Missing
    /\ sources[2] = Missing
    /\ Len(correlations) = 1
    /\ loads[2] = 1

\* C10: the second run on the same inputs ends as the first one did: the same
\* outcome, the same index, the same scores and the same file.
C10_SecondRunSame ==
    (run = 2 /\ Ended) =>
       /\ first.ended = pc
       /\ first.exception = exception
       /\ first.results = results
       /\ first.outputs = outputs
       /\ first.correlations = correlations
       /\ first.corrs_csv = corrs_csv

C10_Witness ==
    /\ run = 2
    /\ pc = "done"
    /\ Len(correlations) = 2
    /\ correlations[1] # correlations[2]
    /\ first.outputs.source_index.val = 1

\* C11: the only path a run writes to is corrs.csv, at most once, and exactly
\* once in a run that returns from _run_interface; no step of a run changes
\* the target file, the candidate files or the sequence of candidates.
C11_WritesOnlyScoreFile ==
    /\ [](/\ \A k \in 1..Len(writes) : writes[k] = "corrs.csv"
          /\ Len(writes) <= 1
          /\ Selected /\ pc # "save" => Len(writes) = 1
          /\ (run = 1 /\ corrs_csv.exists) => Len(writes) = 1)
    /\ [][target' = target /\ sources' = sources]_vars

C11_Witness ==
    /\ pc = "done"
    /\ writes = <<"corrs.csv">>
    /\ Len(sources) = 2
    /\ corrs_csv.exists

\* The voxels of img at the positions where the target is not zero.
UnderTargetMask(img) == ApplyMask(binarize_img(target), img, 1)

\* C16: every score in the list is the correlation of the target's voxels
\* with that candidate's voxels at the same positions, the non-zero voxels of
\* the target, whatever the other candidates and its place in the sequence;
\* and pearsonr never refuses a candidate unless the target has fewer than two
\* non-zero voxels.
C16_ScoreOfPairOnly ==
    /\ \A k \in 1..Len(correlations) :
          /\ k <= Len(sources)
          /\ sources[k] # Missing
          /\ correlations[k] =
                pearsonr(UnderTargetMask(target), UnderTargetMask(sources[k]))
    /\ (pc = "raised" /\ exception = "ValueError")
          => Len(UnderTargetMask(target)) < 2

C16_Witness ==
    /\ pc = "done"
    /\ target = <<0, 1, 2>>
    /\ sources = << <<1, 2, 3>>, <<0, 0, 5>> >>
    /\ Len(correlations) = 2
    /\ ~correlations[1].nan
    /\ ~correlations[2].nan

----------------------------------------------------------------------------
\* Properties of the workflow constructors.

HasEdge(src, out, dst, inp) ==
    [src |-> src, out |-> out, dst |-> dst, inp |-> inp] \in graph

\* The constructor has ended, by return or by an exception.
Constructed(fn) == entry = fn /\ wf_state # "building"

\* No input of a node has two connections.
SingleConnections ==
    \A c, d \in graph : (c.dst = d.dst /\ c.inp = d.inp) => c = d

\* Output field f comes from the resampling node n, whose input_image is the
\* output out of node src and whose reference_image is the input 'reference'.
Resampled(f, n, src, out) ==
    /\ HasEdge(n, "output_image", "output_node", f)
    /\ HasEdge(src, out, n, "input_image")
    /\ HasEdge("input_node", "reference", n, "reference_image")

\* Tissue class t of t1_tissue_map, thresholded and then eroded.
Eroded(t) ==
    /\ HasEdge("input_node", "t1_tissue_map", t, "in_file")
    /\ HasEdge(t, "out_file", "erode_" \o t, "in_file")

\* C12: init_downsample_wf returns a graph in which each of the six output
\* fields comes from its own resampling node, fed from the corresponding
\* input and from 'reference', and no input of a node has two connections.
C12_DownsampleWiring ==
    /\ SingleConnections
    /\ Constructed("init_downsample_wf") =>
          /\ wf_state = "built"
          /\ Resampled("t1_brain", "downsample_t1", "input_node", "t1_brain")
          /\ Resampled("t1_mask", "downsample_brain_mask", "input_node", "t1_mask")
          /\ Resampled("nmt", "downsample_nmt", "input_node", "nmt")
          /\ Resampled("csf_mask", "downsample_csf_mask", "erode_csf_mask", "out_file")
          /\ Eroded("csf_mask")
          /\ Resampled("wm_mask", "downsample_wm_mask", "erode_wm_mask", "out_file")
          /\ Eroded("wm_mask")
          /\ Resampled("t1_tissue_map", "downsample_segmentation", "input_node",
                       "t1_tissue_map")

----------------------------------------------------------------------------
\* Properties of setup_nmt.

\* C13: every run of the NMT workflow by setup_nmt invokes the template
\* installer, and when setup_nmt returns after such a run the template
\* directory it reports is there, put there by that install.
C13_WorkflowInstalls ==
    entry = "setup_nmt" =>
       /\ installs = wf_runs
       /\ (nmt_pc = "returned" /\ wf_runs > 0) => template_dir.nmt

\* C14: over the calls of setup_nmt on one template_dir the NMT workflow runs
\* at most once.
C14_WorkflowRunsOnce ==
    entry = "setup_nmt" => wf_runs <= 1

----------------------------------------------------------------------------
\* Properties of init_coregistration_wf.

\* The inputs of node n that have a connection.
Fed(n) == {c.inp : c \in {d \in graph : d.dst = n}}

\* C15: init_coregistration_wf returns a graph in which the list of
\* transforms get_best_xfm selects from lines up with the list of candidates
\* select_coreg scores (first t1_to_source, second t1_brain_to_source), both
\* FLIRT nodes have their in_file and reference, and the index of select_coreg
\* is a position of the transform list.
C15_TransformOfChosenCandidate ==
    Constructed("init_coregistration_wf") =>
       /\ wf_state = "built"
       /\ HasEdge("t1_to_source", "out_file", "t1_list", "in1")
       /\ HasEdge("t1_brain_to_source", "out_file", "t1_list", "in2")
       /\ HasEdge("t1_to_source", "out_matrix_file", "xfm_list", "in1")
       /\ HasEdge("t1_brain_to_source", "out_matrix_file", "xfm_list", "in2")
       /\ {"in_file", "reference"} \subseteq Fed("t1_to_source")
       /\ {"in_file", "reference"} \subseteq Fed("t1_brain_to_source")
       /\ HasEdge("t1_list", "out", "select_coreg", "sources")
       /\ HasEdge("xfm_list", "out", "get_best_xfm", "inlist")
       /\ HasEdge("select_coreg", "source_index", "get_best_xfm", "index")
       /\ Fed("xfm_list") = Fed("t1_list")

----------------------------------------------------------------------------
\* Properties of HemisphereMask.

\* The file in runtime.cwd that an output names.
Written(out) == {f.data : f \in {g \in cwd_files : g.name = out}}

\* C17: once the mask is split, the left mask is the input where x < 64 and
\* zero elsewhere, the right mask is the input where x >= 64 and zero
\* elsewhere, no voxel is non-zero in both, the two add up to the input, and
\* at the end the file the output left_mask names holds the x < 64 part.
C17_SplitsAtMidpoint ==
    /\ hem_pc \in {"save", "done"} =>
          /\ DOMAIN left_mask = DOMAIN brain_mask.data
          /\ DOMAIN right_mask = DOMAIN brain_mask.data
          /\ \A x \in DOMAIN brain_mask.data :
                /\ left_mask[x] = (IF x < 64 THEN brain_mask.data[x] ELSE 0)
                /\ right_mask[x] = (IF x >= 64 THEN brain_mask.data[x] ELSE 0)
                /\ ~(left_mask[x] # 0 /\ right_mask[x] # 0)
                /\ left_mask[x] + right_mask[x] = brain_mask.data[x]
    /\ hem_pc = "done" =>
          Written(hem_results.left_mask) =
             { [x \in DOMAIN brain_mask.data |->
                   IF x < 64 THEN brain_mask.data[x] ELSE 0] }

C17_Witness ==
    /\ hem_pc = "done"
    /\ DOMAIN mask = 0..127
    /\ mask[63] # 0
    /\ mask[64] # 0
    /\ left_mask[63] # 0
    /\ right_mask[64] # 0
    /\ hem_results.left_mask = <<"mask", "_", "left", ".nii", ".gz">>

----------------------------------------------------------------------------
\* Properties of init_gradient_nonlinearity_wf.

\* C18: in the graph init_gradient_nonlinearity_wf returns, the output of
\* warpfield is connected to the field warp_field of output_node whatever
\* warp_field_only is, every connection into output_node names a field
\* output_node was created with, and apply_warp is connected to out_file
\* exactly when warp_field_only is false.
C18_WarpFieldDelivered ==
    (entry = "init_gradient_nonlinearity_wf" /\ wf_state = "built") =>
       /\ HasEdge("warpfield", "out_file", "output_node", "warp_field")
       /\ Fed("output_node") \subseteq Fields(entry, "output_node")
       /\ HasEdge("apply_warp", "out_file", "output_node", "out_file")
             <=> ~warp_field_only

====
